---- MODULE Spec2Model ----
(***************************************************************************)
(* Model of ldap/servers/slapd/fuzzer.c: the relay fuzzServer, called by   *)
(* the fuzzing driver once per input on a background thread, and the       *)
(* startup hook launchFuzzer that creates that thread.                     *)
(*                                                                         *)
(* The program's collaborators are modelled by what their interfaces do:   *)
(* the kernel's descriptor table and TCP connections (socket, connect,     *)
(* send, close), the thread library (pthread_create), the diagnostic       *)
(* stream (fprintf) and the driver (LLVMFuzzerRunDriver), which reads the  *)
(* argument vector through the pointers it is given and then calls the     *)
(* relay once per input.  Every result the code discards is still          *)
(* produced, so that what the code does NOT do with it is visible.         *)
(***************************************************************************)
EXTENDS Integers, Sequences, FiniteSets, TLC

\* ------------------------------------------------------------------ bounds
\* inputs the drivers generate, all threads together (a driver's loop has
\* no end of its own)
MaxRuns == 2
\* longest input buffer (stands for -max_len=60000)
MaxLen == 2
\* bytes a connection holds in flight before send() blocks: fewer than the
\* longest input, so that a send can have to wait
SndBuf == MaxLen - 1

\* ---------------------------------------------------------------- the host
\* calls of the startup hook by the host process: it is meant to be called
\* once during initialisation, and nothing stops a second call
LaunchCalls == 2

\* ------------------------------------------------------- program constants
port == 5555
SUCCESS == 1
args_size_init == 5

ip == "::1"
\* the list of the previous configuration (the commented-out declaration)
arg_array_old ==
  <<"0", "corpus", "-max_len=60000", "-len_control=30",
    "-use_value_profile=1", "-dict=dict.txt">>
arg_array_init ==
  <<"0", "corpus", "-max_len=60000", "-detect_leaks=0", "-len_control=20">>

\* ------------------------------------------------------------ value spaces
Threads == 1..LaunchCalls
\* the inputs the driver on thread t generates: every length up to MaxLen.
\* The relay never looks at a byte, so each driver's bytes carry its own
\* value: a byte reaching another thread's connection would show
Inputs(t) == {[i \in 1..n |-> t] : n \in 0..MaxLen}
ServerModes == {"listening", "absent", "stalled"}
\* a result that has not been produced yet
NoValue == (-1) - 1
FAIL == -1
RelaySteps == <<"socket", "connect", "send", "usleep", "close">>

VARIABLES
  mainPc,      \* the caller's position in launchFuzzer
  calls,       \* calls of launchFuzzer begun
  stderrLog,   \* lines written to the diagnostic stream
  args_size, args_ptr, arg_array,   \* the file's globals
  pc,          \* each background thread's position
  threadLog,   \* what each thread function has executed so far
  driverArgs,  \* the (count, list) the driver read on each thread
  runs,        \* relay invocations the driver on each thread has begun
  Data,        \* fuzzServer's argument (Size is Len(Data))
  sockfd,      \* fuzzServer's local
  copied,      \* bytes the running send() has queued
  connRet, sendRet, closeRet,   \* results of the calls, which the code drops
  trace,       \* the calls the running invocation has made
  ret,         \* what the last invocation returned to the driver
  fdtab,       \* the process's descriptor table
  conns,       \* TCP connections to [::1]:5555, by (thread, run)
  server       \* what the target does, the same for a whole run

mainVars == <<mainPc, calls, stderrLog>>
argVars == <<args_size, args_ptr, arg_array>>
relayVars == <<Data, sockfd, copied, connRet, sendRet, closeRet, trace, ret>>
threadVars == <<pc, threadLog, driverArgs, runs>>
netVars == <<fdtab, conns>>
vars == <<mainVars, argVars, threadVars, relayVars, netVars, server>>

Min(S) == CHOOSE x \in S : \A y \in S : x <= y
MinOf(a, b) == IF a <= b THEN a ELSE b

Init ==
  /\ mainPc = "idle"
  /\ calls = 0
  /\ stderrLog = <<>>
  /\ arg_array = arg_array_init
  /\ args_ptr = 0
  /\ args_size = args_size_init
  /\ pc = [t \in Threads |-> "none"]
  /\ threadLog = [t \in Threads |-> <<>>]
  /\ driverArgs = [t \in Threads |-> <<>>]
  /\ runs = [t \in Threads |-> 0]
  /\ Data = [t \in Threads |-> <<>>]
  /\ sockfd = [t \in Threads |-> NoValue]
  /\ copied = [t \in Threads |-> 0]
  /\ connRet = [t \in Threads |-> NoValue]
  /\ sendRet = [t \in Threads |-> NoValue]
  /\ closeRet = [t \in Threads |-> NoValue]
  /\ trace = [t \in Threads |-> <<>>]
  /\ ret = [t \in Threads |-> NoValue]
  /\ fdtab = <<>>
  /\ conns = <<>>
  /\ server \in ServerModes

\* ------------------------------------------------------------ launchFuzzer
\* the host process calls the startup hook, whose first statement is
\* pthread_create(&threadID, NULL, launchFuzzer2, NULL): a new thread that
\* starts in launchFuzzer2, or an error return (EAGAIN) that is not looked at
PthreadCreate ==
  /\ mainPc = "idle"
  /\ calls < LaunchCalls
  /\ calls' = calls + 1
  /\ \/ /\ \E t \in Threads : pc[t] = "none"
        /\ LET t == Min({u \in Threads : pc[u] = "none"})
           IN pc' = [pc EXCEPT ![t] = "usleep"]
     \/ pc' = pc
  /\ mainPc' = "fprintf"
  /\ UNCHANGED <<stderrLog, argVars, threadLog, driverArgs, runs, relayVars,
                 netVars, server>>

\* fprintf(stderr, "fuzzing launched\n")
Fprintf ==
  /\ mainPc = "fprintf"
  /\ stderrLog' = Append(stderrLog, "fuzzing launched\n")
  /\ mainPc' = "return"
  /\ UNCHANGED <<calls, argVars, threadVars, relayVars, netVars, server>>

\* a launchFuzzer that joined its threads would wait for this
ReturnJoinsThreads == \A t \in Threads : pc[t] \in {"none", "exited"}
\* what launchFuzzer waits for before it returns: nothing (no pthread_join)
ReturnGuard == TRUE

LaunchReturn ==
  /\ mainPc = "return"
  /\ ReturnGuard
  /\ mainPc' = "idle"
  /\ UNCHANGED <<calls, stderrLog, argVars, threadVars, relayVars, netVars,
                 server>>

\* ----------------------------------------------------------- launchFuzzer2
\* usleep(15000)
StartupDelay(t) ==
  /\ pc[t] = "usleep"
  /\ pc' = [pc EXCEPT ![t] = "run"]
  /\ threadLog' = [threadLog EXCEPT ![t] = Append(@, "usleep")]
  /\ UNCHANGED <<mainVars, argVars, driverArgs, runs, relayVars, netVars,
                 server>>

\* the vector the driver builds from (*argv, *argv + *argc)
ReadArgs == <<args_size, SubSeq(arg_array, args_ptr + 1, args_ptr + args_size)>>

\* LLVMFuzzerRunDriver(&args_size, &args_ptr, &fuzzServer) is entered
RunDriver(t) ==
  /\ pc[t] = "run"
  /\ pc' = [pc EXCEPT ![t] = "driver"]
  /\ threadLog' = [threadLog EXCEPT ![t] = Append(@, "driver")]
  /\ driverArgs' = [driverArgs EXCEPT ![t] = ReadArgs]
  /\ UNCHANGED <<mainVars, argVars, runs, relayVars, netVars, server>>

RECURSIVE SumRuns(_)
SumRuns(S) ==
  IF S = {} THEN 0
  ELSE LET t == CHOOSE u \in S : TRUE IN runs[t] + SumRuns(S \ {t})
TotalRuns == SumRuns(Threads)

\* the driver calls fuzzServer(Data, Size) with its next input
Invoke(t) ==
  /\ pc[t] = "driver"
  /\ TotalRuns < MaxRuns
  /\ \E d \in Inputs(t) : Data' = [Data EXCEPT ![t] = d]
  /\ runs' = [runs EXCEPT ![t] = @ + 1]
  /\ pc' = [pc EXCEPT ![t] = "socket"]
  /\ UNCHANGED <<mainVars, argVars, threadLog, driverArgs, sockfd, copied,
                 connRet, sendRet, closeRet, trace, ret, netVars, server>>

\* the driver returns and launchFuzzer2 ends; its result goes nowhere
DriverExit(t) ==
  /\ pc[t] = "driver"
  /\ pc' = [pc EXCEPT ![t] = "exited"]
  /\ UNCHANGED <<mainVars, argVars, threadLog, driverArgs, runs, relayVars,
                 netVars, server>>

\* -------------------------------------------------------------- fuzzServer
Size(t) == Len(Data[t])

\* server_addr as connect sees it: family, port and address are assigned;
\* sin6_flowinfo and sin6_scope_id are not, and hold what the stack held (g)
server_addr(g) ==
  [sin6_family |-> "AF_INET6", sin6_port |-> port, sin6_addr |-> ip,
   sin6_flowinfo |-> g[1], sin6_scope_id |-> g[2]]
Garbage == {0, 1} \X {0, 1}

\* the target's address, and whether addr names it: for the loopback
\* address the flow information and the scope are not looked at
Listener == [sin6_family |-> "AF_INET6", sin6_port |-> 5555, sin6_addr |-> "::1"]
Reaches(addr) ==
  /\ addr.sin6_family = Listener.sin6_family
  /\ addr.sin6_port = Listener.sin6_port
  /\ addr.sin6_addr = Listener.sin6_addr

\* three control flows the function does not have: a return when socket or
\* connect failed, no close after a failed send, no send of an empty buffer
PcAfterEarlyReturn(step, rc, size) ==
  IF step \in {"socket", "connect"} /\ rc = FAIL THEN "return"
  ELSE CASE step = "socket" -> "connect"
         [] step = "connect" -> "send"
         [] step = "send" -> "pause"
         [] step = "usleep" -> "close"
         [] step = "close" -> "return"
PcAfterSkipClose(step, rc, size) ==
  CASE step = "socket" -> "connect"
    [] step = "connect" -> "send"
    [] step = "send" -> IF rc = FAIL THEN "return" ELSE "pause"
    [] step = "usleep" -> "close"
    [] step = "close" -> "return"
PcAfterSkipEmpty(step, rc, size) ==
  CASE step = "socket" -> "connect"
    [] step = "connect" -> IF size = 0 THEN "close" ELSE "send"
    [] step = "send" -> "pause"
    [] step = "usleep" -> "close"
    [] step = "close" -> "return"
\* the statement that follows each call: the function is straight-line code,
\* no result (rc) and no length (size) selects another path
PcAfter(step, rc, size) ==
  CASE step = "socket" -> "connect"
    [] step = "connect" -> "send"
    [] step = "send" -> "pause"
    [] step = "usleep" -> "close"
    [] step = "close" -> "return"

\* a sockfd with static storage would be one variable for all threads
StoreSockfdStatic(t, fd) == [u \in Threads |-> fd]
\* sockfd is an automatic variable: one per invocation
StoreSockfd(t, fd) == [sockfd EXCEPT ![t] = fd]

\* a relay that reported a failed send would return this
ReturnStatusChecked(t) == IF sendRet[t] = FAIL THEN FAIL ELSE SUCCESS
\* the value of the return statement
ReturnStatus(t) == SUCCESS

\* the descriptor table holds the relay's sockets only; the descriptors of
\* the rest of the process are left out, so numbering starts at 0
LowestFreeFd == Min({n \in 0..Cardinality(DOMAIN fdtab) : n \notin DOMAIN fdtab})
Connected(fd) == fd \in DOMAIN fdtab /\ fdtab[fd].st = "conn"
Space(c) == SndBuf - Len(conns[c].buf)
Drop(f, x) == [y \in DOMAIN f \ {x} |-> f[y]]

\* sockfd = socket(AF_INET6, SOCK_STREAM, 0): the lowest free descriptor,
\* or -1
Socket(t) ==
  /\ pc[t] = "socket"
  /\ \/ /\ fdtab' = fdtab @@ (LowestFreeFd :> [st |-> "unconn", cid |-> <<0, 0>>, owner |-> t])
        /\ sockfd' = StoreSockfd(t, LowestFreeFd)
        /\ pc' = [pc EXCEPT ![t] = PcAfter("socket", LowestFreeFd, Size(t))]
     \/ /\ fdtab' = fdtab
        /\ sockfd' = StoreSockfd(t, FAIL)
        /\ pc' = [pc EXCEPT ![t] = PcAfter("socket", FAIL, Size(t))]
  /\ trace' = [trace EXCEPT ![t] = Append(@, "socket")]
  /\ UNCHANGED <<mainVars, argVars, threadLog, driverArgs, runs, Data, copied,
                 connRet, sendRet, closeRet, ret, conns, server>>

\* connect(sockfd, &server_addr, sizeof(server_addr)): a new connection when
\* the descriptor is an unconnected socket and the target listens at the
\* address, an error otherwise.  The connection's field input records the
\* buffer of the invocation that opened it; it is history for the
\* statements below, and no action reads it
Connect(t) ==
  /\ pc[t] = "connect"
  /\ \E g \in Garbage :
     LET fd == sockfd[t]
         ok == /\ fd \in DOMAIN fdtab
               /\ fdtab[fd].st = "unconn"
               /\ server # "absent"
               /\ Reaches(server_addr(g))
         c == <<t, runs[t]>>
     IN IF ok
        THEN /\ fdtab' = [fdtab EXCEPT ![fd] = [@ EXCEPT !.st = "conn", !.cid = c]]
             /\ conns' = conns @@ (c :> [buf |-> <<>>, data |-> <<>>, fin |-> FALSE,
                                         input |-> Data[t]])
             /\ connRet' = [connRet EXCEPT ![t] = 0]
             /\ pc' = [pc EXCEPT ![t] = PcAfter("connect", 0, Size(t))]
        ELSE /\ UNCHANGED netVars
             /\ connRet' = [connRet EXCEPT ![t] = FAIL]
             /\ pc' = [pc EXCEPT ![t] = PcAfter("connect", FAIL, Size(t))]
  /\ trace' = [trace EXCEPT ![t] = Append(@, "connect")]
  /\ UNCHANGED <<mainVars, argVars, threadLog, driverArgs, runs, Data, sockfd,
                 copied, sendRet, closeRet, ret, server>>

\* the blocking send queues bytes k+1..k+n of Data on connection c
Queue(t, c, k, n) ==
  /\ conns' = [conns EXCEPT ![c].buf = @ \o SubSeq(Data[t], k + 1, k + n)]
  /\ IF k + n = Size(t)
     THEN /\ sendRet' = [sendRet EXCEPT ![t] = Size(t)]
          /\ copied' = [copied EXCEPT ![t] = 0]
          /\ pc' = [pc EXCEPT ![t] = PcAfter("send", Size(t), Size(t))]
     ELSE /\ sendRet' = sendRet
          /\ copied' = [copied EXCEPT ![t] = k + n]
          /\ pc' = [pc EXCEPT ![t] = "sending"]

\* send(sockfd, Data, Size, 0): called once; on a connected socket it queues
\* what fits and blocks for the rest, on anything else it fails
Send(t) ==
  /\ pc[t] = "send"
  /\ IF Connected(sockfd[t])
     THEN LET c == fdtab[sockfd[t]].cid
          IN Queue(t, c, 0, MinOf(Space(c), Size(t)))
     ELSE /\ sendRet' = [sendRet EXCEPT ![t] = FAIL]
          /\ pc' = [pc EXCEPT ![t] = PcAfter("send", FAIL, Size(t))]
          /\ UNCHANGED <<conns, copied>>
  /\ trace' = [trace EXCEPT ![t] = Append(@, "send")]
  /\ UNCHANGED <<mainVars, argVars, threadLog, driverArgs, runs, Data, sockfd,
                 connRet, closeRet, ret, fdtab, server>>

\* the blocked send wakes up when the connection has room again
SendCopy(t) ==
  /\ pc[t] = "sending"
  /\ Connected(sockfd[t])
  /\ LET c == fdtab[sockfd[t]].cid
     IN /\ Space(c) > 0
        /\ Queue(t, c, copied[t], MinOf(Space(c), Size(t) - copied[t]))
  /\ UNCHANGED <<mainVars, argVars, threadLog, driverArgs, runs, Data, sockfd,
                 connRet, closeRet, trace, ret, fdtab, server>>

\* a signal handled on the thread ends the blocked send: it returns the
\* count queued so far, or -1 (EINTR) when that is nothing
SendInterrupted(t) ==
  /\ pc[t] = "sending"
  /\ sendRet' = [sendRet EXCEPT ![t] = IF copied[t] > 0 THEN copied[t] ELSE FAIL]
  /\ copied' = [copied EXCEPT ![t] = 0]
  /\ pc' = [pc EXCEPT ![t] = PcAfter("send", sendRet'[t], Size(t))]
  /\ UNCHANGED <<mainVars, argVars, threadLog, driverArgs, runs, Data, sockfd,
                 connRet, closeRet, trace, ret, netVars, server>>

\* usleep(1000)
Usleep(t) ==
  /\ pc[t] = "pause"
  /\ pc' = [pc EXCEPT ![t] = PcAfter("usleep", 0, Size(t))]
  /\ trace' = [trace EXCEPT ![t] = Append(@, "usleep")]
  /\ UNCHANGED <<mainVars, argVars, threadLog, driverArgs, runs, Data, sockfd,
                 copied, connRet, sendRet, closeRet, ret, netVars, server>>

\* close(sockfd): frees the descriptor; a connection gets its FIN behind the
\* bytes still in flight
Close(t) ==
  /\ pc[t] = "close"
  /\ LET fd == sockfd[t]
     IN IF fd \in DOMAIN fdtab
        THEN /\ fdtab' = Drop(fdtab, fd)
             /\ conns' = IF fdtab[fd].st = "conn"
                         THEN [conns EXCEPT ![fdtab[fd].cid].fin = TRUE]
                         ELSE conns
             /\ closeRet' = [closeRet EXCEPT ![t] = 0]
             /\ pc' = [pc EXCEPT ![t] = PcAfter("close", 0, Size(t))]
        ELSE /\ UNCHANGED netVars
             /\ closeRet' = [closeRet EXCEPT ![t] = FAIL]
             /\ pc' = [pc EXCEPT ![t] = PcAfter("close", FAIL, Size(t))]
  /\ trace' = [trace EXCEPT ![t] = Append(@, "close")]
  /\ UNCHANGED <<mainVars, argVars, threadLog, driverArgs, runs, Data, sockfd,
                 copied, connRet, sendRet, ret, server>>

\* return 1: control and the status go back to the driver, the locals end
Return(t) ==
  /\ pc[t] = "return"
  /\ ret' = [ret EXCEPT ![t] = ReturnStatus(t)]
  /\ pc' = [pc EXCEPT ![t] = "driver"]
  /\ Data' = [Data EXCEPT ![t] = <<>>]
  /\ sockfd' = [sockfd EXCEPT ![t] = NoValue]
  /\ connRet' = [connRet EXCEPT ![t] = NoValue]
  /\ sendRet' = [sendRet EXCEPT ![t] = NoValue]
  /\ closeRet' = [closeRet EXCEPT ![t] = NoValue]
  /\ trace' = [trace EXCEPT ![t] = <<>>]
  /\ UNCHANGED <<mainVars, argVars, threadLog, driverArgs, runs, copied,
                 netVars, server>>

\* ------------------------------------------------------- the target server
\* the handler of connection c reads the bytes that have arrived
Deliver(c) ==
  /\ server = "listening"
  /\ conns[c].buf # <<>>
  /\ conns' = [conns EXCEPT ![c].data = @ \o conns[c].buf, ![c].buf = <<>>]
  /\ UNCHANGED <<mainVars, argVars, threadVars, relayVars, fdtab, server>>

\* the handler reads end-of-stream, once every byte before the FIN is read,
\* and is done with the connection
Eof(c) ==
  /\ server = "listening"
  /\ conns[c].buf = <<>>
  /\ conns[c].fin
  /\ conns' = Drop(conns, c)
  /\ UNCHANGED <<mainVars, argVars, threadVars, relayVars, fdtab, server>>

\* ----------------------------------------------------------- specification
\* the steps an invocation takes when its thread runs
RelayStep(t) ==
  \/ Socket(t) \/ Connect(t) \/ Send(t) \/ SendCopy(t) \/ Usleep(t)
  \/ Close(t) \/ Return(t)

fuzzServer(t) == RelayStep(t) \/ SendInterrupted(t)
launchFuzzer2(t) == StartupDelay(t) \/ RunDriver(t) \/ DriverExit(t)
launchFuzzer == PthreadCreate \/ Fprintf \/ LaunchReturn
TargetServer ==
  \/ \E c \in DOMAIN conns : Deliver(c)
  \/ \E c \in DOMAIN conns : Eof(c)

Next ==
  \/ launchFuzzer
  \/ \E t \in Threads : launchFuzzer2(t) \/ Invoke(t) \/ fuzzServer(t)
  \/ TargetServer

Spec == Init /\ [][Next]_vars

\* the scheduler runs every thread that can run, and a listening target
\* keeps reading; signals and the driver's decisions are not owed
FairSpec ==
  /\ Spec
  /\ \A t \in Threads : WF_vars(RelayStep(t))
  /\ WF_vars(TargetServer)

\* ------------------------------------------------------------------ claims
IsPrefix(a, b) == Len(a) <= Len(b) /\ a = SubSeq(b, 1, Len(a))
Created == {t \in Threads : pc[t] # "none"}
\* the positions at which an invocation holds the socket it created
Holding == {"connect", "send", "sending", "pause", "close"}
Owned(t) == {fd \in DOMAIN fdtab : fdtab[fd].owner = t}

\* C1: every invocation of the relay that returns hands the driver the same
\* status, 1, whatever socket, connect, send and close did - also when
\* nothing listens at the target and connect fails.
C1_AlwaysSuccess == \A t \in Threads : ret[t] \in {NoValue, SUCCESS}

\* an invocation has returned although no listener existed
C1_Witness ==
  \E t \in Threads : server = "absent" /\ pc[t] = "driver" /\ ret[t] = SUCCESS

\* C2: every invocation that starts reaches its return and hands back the
\* success status, whatever the target does (listening, absent, or
\* accepting but never reading).
C2_RelayTerminates ==
  \A t \in Threads :
    (pc[t] = "socket") ~> (pc[t] = "driver" /\ ret[t] = SUCCESS)

\* C3: with a listening target, the handler of a connection has read, when
\* it comes to the end of the stream, exactly the buffer of the invocation
\* that opened it: nothing missing and nothing from another invocation.
C3_ExactDelivery ==
  server = "listening" =>
    \A c \in DOMAIN conns :
      (conns[c].fin /\ conns[c].buf = <<>>) => conns[c].data = conns[c].input

\* C4: after n completed calls of the startup hook there are n driver
\* threads and n confirmation messages.
C4_OneThreadPerCall ==
  mainPc = "idle" => Cardinality(Created) = calls /\ Len(stderrLog) = calls

C6_FixedArguments ==
  \A t \in Threads :
    driverArgs[t] # <<>> =>
      driverArgs[t] = <<5, <<"0", "corpus", "-max_len=60000",
                             "-detect_leaks=0", "-len_control=20">>>>

\* two calls of the hook have each started a driver
C6_Witness ==
  \E t, u \in Threads : t # u /\ driverArgs[t] # <<>> /\ driverArgs[u] # <<>>

\* C7: launchFuzzer never waits for the thread it created: once the message
\* is written its return is possible whatever the threads are doing, the
\* message is on the stream before it returns, and a thread enters the
\* driver only after its own startup delay.
C7_FireAndForget ==
  /\ mainPc = "fprintf" => ENABLED Fprintf
  /\ mainPc = "return" => ENABLED LaunchReturn
  /\ mainPc \in {"return", "idle"} => Len(stderrLog) = calls
  /\ \A t \in Threads :
       /\ IsPrefix(threadLog[t], <<"usleep", "driver">>)
       /\ pc[t] \notin {"none", "usleep", "run"} =>
            threadLog[t] = <<"usleep", "driver">>

\* the hook has returned while its thread is still in the startup delay
C7_Witness ==
  mainPc = "idle" /\ calls > 0 /\ \E t \in Threads : pc[t] = "usleep"

\* C8: an invocation with length 0 makes the same calls as any other:
\* socket, connect, a send of zero bytes, the pause and close; with a
\* socket and a target that accepts, the connection is opened, the send
\* returns 0 and the close succeeds, and the target's side of it carries
\* the FIN and no byte.
C8_EmptyInput ==
  \A t \in Threads :
    (pc[t] = "return" /\ Size(t) = 0) =>
      /\ trace[t] = RelaySteps
      /\ (sockfd[t] # FAIL /\ server # "absent") =>
           /\ connRet[t] = 0 /\ sendRet[t] = 0 /\ closeRet[t] = 0
           /\ <<t, runs[t]>> \in DOMAIN conns =>
                LET c == conns[<<t, runs[t]>>]
                IN c.fin /\ c.buf = <<>> /\ c.data = <<>>

\* a zero-length invocation has opened and closed a connection
C8_Witness ==
  \E t \in Threads :
    /\ pc[t] = "return" /\ Size(t) = 0
    /\ connRet[t] = 0 /\ sendRet[t] = 0 /\ closeRet[t] = 0

\* C9: an invocation calls socket, connect, send, usleep and close in this
\* order, each once, before it returns - also when socket or connect
\* failed; close never comes before send.
C9_StepOrder ==
  \A t \in Threads :
    /\ IsPrefix(trace[t], RelaySteps)
    /\ pc[t] = "return" => trace[t] = RelaySteps
    /\ pc[t] \in Holding \cup {"socket"} => Len(trace[t]) < Len(RelaySteps)

\* an invocation whose socket or connect failed has made all five calls
C9_Witness ==
  \E t \in Threads :
    /\ pc[t] = "return" /\ trace[t] = RelaySteps
    /\ (sockfd[t] = FAIL \/ connRet[t] = FAIL)

\* C10: a thread holds at most one relay socket, and none outside the part
\* of an invocation between socket and close: the socket an invocation
\* created is closed by its one close before it returns, and the buffer
\* is not kept after the return.
C10_NoSocketLeft ==
  \A t \in Threads :
    /\ Cardinality(Owned(t)) <= 1
    /\ pc[t] \notin Holding => Owned(t) = {}
    /\ (pc[t] = "return" /\ sockfd[t] # FAIL) => closeRet[t] = 0
    /\ pc[t] \notin Holding \cup {"socket", "return"} => Data[t] = <<>>

\* an invocation has created a socket, failed to connect it, and closed it
C10_Witness ==
  \E t \in Threads :
    pc[t] = "return" /\ sockfd[t] # FAIL /\ connRet[t] = FAIL /\ closeRet[t] = 0

====
